---- MODULE Spec2Model ----
(***************************************************************************)
(* Download queue and worker concurrency core of FireDownload              *)
(* (src/FireDownload.py): DownloadManager (backlog, active table, paused   *)
(* table, QThreadPool), DownloadWorker.run and the signals between them.   *)
(*                                                                         *)
(* A job is a DownloadItem together with the DownloadWorker that is        *)
(* created for it at admission; jobs are numbered in creation order        *)
(* (the order in which add_download appends them to the backlog).          *)
(* Manager handlers run on the GUI thread and are atomic; a worker's run   *)
(* is cut at every read or write of a field shared with the GUI thread.    *)
(***************************************************************************)
EXTENDS Integers, Sequences, FiniteSets, TLC

\* ---------------------------------------------------------------- bounds
\* A behaviour is explored under one of two caps (see Caps): many jobs with the
\* workers still waiting in the thread pool, or fewer jobs with workers running.
MaxJobs == 3          \* DownloadItems created while no worker runs
MaxRunJobs == 2       \* DownloadItems created in a behaviour whose workers run
MaxStarted == 1       \* workers whose run() the thread pool starts
MaxBatch == 2         \* URLs in one add_download call
MaxConcurrent == 2    \* largest value of the "max_concurrent" setting explored
MaxBytes == 2         \* largest byte count the fetcher reports to the progress hook
MaxTick == 3          \* largest byte count in a progress dict given to the hook alone

\* ------------------------------------------------------ program constants
max_attempts == 3
backoff_base == 5     \* seconds: time.sleep(5 * attempt)

\* ------------------------------------------------------------------ URLs
\* A URL is kept in the state by name; UrlParts is what urllib.parse.urlparse
\* yields for it (scheme and netloc, the netloc as a sequence of characters).
URLS == {"u1", "u2", "bad"}

UrlParts(u) ==
    CASE u = "u1"  -> [scheme |-> "https",
                       netloc |-> <<"W","W","W",".","Y","o","u","T","u","b","e",".","c","o","m">>]
      [] u = "u2"  -> [scheme |-> "http",
                       netloc |-> <<"v","i","m","e","o",".","c","o","m">>]
      [] u = "bad" -> [scheme |-> "ftp",
                       netloc |-> <<"y","o","u","t","u","b","e",".","c","o","m">>]

\* Config.SUPPORTED_SITES: the domains of all its entries
SUPPORTED_SITES ==
    { <<"y","o","u","t","u","b","e",".","c","o","m">>,
      <<"y","o","u","t","u",".","b","e">>,
      <<"t","i","k","t","o","k",".","c","o","m">>,
      <<"v","m",".","t","i","k","t","o","k",".","c","o","m">>,
      <<"i","n","s","t","a","g","r","a","m",".","c","o","m">>,
      <<"t","w","i","t","t","e","r",".","c","o","m">>,
      <<"x",".","c","o","m">>,
      <<"t","w","i","t","c","h",".","t","v">>,
      <<"c","l","i","p","s",".","t","w","i","t","c","h",".","t","v">>,
      <<"r","e","d","d","i","t",".","c","o","m">>,
      <<"d","a","i","l","y","m","o","t","i","o","n",".","c","o","m">>,
      <<"s","o","u","n","d","c","l","o","u","d",".","c","o","m">>,
      <<"o","n",".","s","o","u","n","d","c","l","o","u","d",".","c","o","m">>,
      <<"v","i","m","e","o",".","c","o","m">>,
      <<"f","a","c","e","b","o","o","k",".","c","o","m">>,
      <<"l","i","n","k","e","d","i","n",".","c","o","m">>,
      <<"r","u","m","b","l","e",".","c","o","m">>,
      <<"b","i","l","i","b","i","l","i",".","c","o","m">>,
      <<"o","d","y","s","e","e",".","c","o","m">> }

\* string.ascii_lowercase and string.ascii_uppercase
ascii_lowercase ==
    <<"a","b","c","d","e","f","g","h","i","j","k","l","m",
      "n","o","p","q","r","s","t","u","v","w","x","y","z">>
ascii_uppercase ==
    <<"A","B","C","D","E","F","G","H","I","J","K","L","M",
      "N","O","P","Q","R","S","T","U","V","W","X","Y","Z">>

\* str.lower() of one character
LowerChar(c) ==
    IF \E i \in 1..Len(ascii_uppercase) : ascii_uppercase[i] = c
    THEN ascii_lowercase[CHOOSE i \in 1..Len(ascii_uppercase) : ascii_uppercase[i] = c]
    ELSE c

Lower(s) == [i \in 1..Len(s) |-> LowerChar(s[i])]

\* p occurs in s starting at position i
OccursAt(s, p, i) == i + Len(p) - 1 <= Len(s) /\ SubSeq(s, i, i + Len(p) - 1) = p

\* Python's  p in s
Contains(s, p) == \E i \in 1..(Len(s) + 1) : OccursAt(s, p, i)

\* Python's  s.replace(p, ""): leftmost, non-overlapping occurrences removed
RECURSIVE Remove(_, _)
Remove(s, p) ==
    IF s = <<>> THEN <<>>
    ELSE IF OccursAt(s, p, 1) THEN Remove(SubSeq(s, Len(p) + 1, Len(s)), p)
    ELSE <<Head(s)>> \o Remove(Tail(s), p)

\* validate_url after urlparse: the scheme test, lower(), the two replace
\* calls and the substring test against the supported domains
validate_url_of(parsed) ==
    LET domain == Lower(parsed.netloc)
        clean_domain == Remove(Remove(domain, <<"w","w","w",".">>), <<"m",".">>)
    IN  IF parsed.scheme \notin {"http", "https"} THEN FALSE
        ELSE \E d \in SUPPORTED_SITES : Contains(clean_domain, d)

validate_url(u) == validate_url_of(UrlParts(u))

\* the URLs of URLS that validate_url accepts (validate_url worked out once)
Accepted == {u \in URLS : validate_url(u)}

\* ------------------------------------------------------------ Python dict
\* active_downloads and paused_downloads are dicts url -> worker; a dict keeps
\* insertion order, and assigning to a key it already has keeps that key's place.
DictHas(d, k) == \E i \in 1..Len(d) : d[i][1] = k
DictGet(d, k) == d[CHOOSE i \in 1..Len(d) : d[i][1] = k][2]
DictSet(d, k, v) ==
    IF DictHas(d, k)
    THEN [i \in 1..Len(d) |-> IF d[i][1] = k THEN <<k, v>> ELSE d[i]]
    ELSE Append(d, <<k, v>>)
DictDel(d, k) == SelectSeq(d, LAMBDA e : e[1] # k)
DictKeys(d) == {d[i][1] : i \in 1..Len(d)}
DictValues(d) == {d[i][2] : i \in 1..Len(d)}

\* ------------------------------------------------------------------ state
VARIABLES
    items,              \* job -> DownloadItem and DownloadWorker fields
    download_queue,     \* DownloadManager.download_queue: backlog, jobs in order
    active_downloads,   \* DownloadManager.active_downloads: dict url -> job
    paused_downloads,   \* DownloadManager.paused_downloads: dict url -> job
    maxThreadCount,     \* thread_pool.maxThreadCount()
    pool_queue,         \* runnables given to thread_pool.start, not yet started
    admitted,           \* jobs in the order their DownloadWorker was created
    finished_signals,   \* worker_finished emissions not yet delivered to the slot
    last_add,           \* the last add_download call: its urls, what it returned
    cap,                \* the cap this behaviour is explored under (never changes)
    call                \* a call of a pure helper: its name, argument and result

vars == <<items, download_queue, active_downloads, paused_downloads,
          maxThreadCount, pool_queue, admitted, finished_signals, last_add, cap,
          call>>

\* jobs: DownloadItems created; started: workers whose run() starts; calls:
\* whether last_add keeps the add_download calls
Caps == { [jobs |-> MaxJobs, started |-> 0, calls |-> TRUE],
          [jobs |-> MaxRunJobs, started |-> MaxStarted, calls |-> FALSE] }

Jobs == 1..Len(items)

\* DownloadItem.__init__; pc "none": no DownloadWorker exists for the item yet
\* outcome: how the fetcher ended the current attempt ("none" while it runs);
\* n_error, n_finished: download_error and worker_finished emissions so far;
\* wait: seconds slept in time.sleep since the current attempt ended;
\* metadata: "empty" ({}) or "info" (what _extract_metadata made of a probe);
\* file_path: "" or "path" (the joined output path)
DownloadItem(url) ==
    [url |-> url, status |-> "queued", pc |-> "none", attempt |-> 0,
     success |-> FALSE, is_paused |-> FALSE, is_cancelled |-> FALSE,
     progress |-> 0, bytes_downloaded |-> 0,
     outcome |-> "none", n_error |-> 0, n_finished |-> 0, wait |-> 0,
     metadata |-> "empty", file_path |-> ""]

\* DownloadWorker.__init__ followed by thread_pool.start(worker)
DownloadWorker(item) == [item EXCEPT !.pc = "pooled"]

TerminalStatus == {"completed", "error", "cancelled"}

\* threads of the pool that are inside a run()
Running == {j \in Jobs : items[j].pc \notin {"none", "pooled", "done"}}
Started == {j \in Jobs : items[j].pc \notin {"none", "pooled"}}

\* The manager's tables as one value, so that handlers can call each other.
Manager == [queue |-> download_queue, active |-> active_downloads,
            paused |-> paused_downloads, pool |-> pool_queue,
            adm |-> admitted, items |-> items]

\* no helper call is under way
NoCall == [fn |-> "none", arg |-> <<>>, done |-> FALSE, ret |-> FALSE]

Init ==
    /\ items = <<>>
    /\ download_queue = <<>>
    /\ active_downloads = <<>>
    /\ paused_downloads = <<>>
    /\ maxThreadCount \in 1..MaxConcurrent
    /\ pool_queue = <<>>
    /\ admitted = <<>>
    /\ finished_signals = <<>>
    /\ last_add = [urls |-> <<>>, result |-> "None"]
    /\ cap \in Caps
    /\ call = NoCall

\* ------------------------------------------------- DownloadManager handlers
RECURSIVE start_next_download_lifo(_, _)
start_next_download_lifo(m, maxc) ==
    IF Len(m.active) < maxc /\ m.queue # <<>>
    THEN LET j == m.queue[Len(m.queue)]
         IN  start_next_download_lifo(
               [m EXCEPT !.queue = SubSeq(m.queue, 1, Len(m.queue) - 1),
                         !.active = DictSet(m.active, m.items[j].url, j),
                         !.items[j] = DownloadWorker(m.items[j]),
                         !.pool = Append(m.pool, j),
                         !.adm = Append(m.adm, j)], maxc)
    ELSE m

RECURSIVE start_next_download_over(_, _)
start_next_download_over(m, maxc) ==
    IF Len(m.active) <= maxc /\ m.queue # <<>>
    THEN LET j == Head(m.queue)
         IN  start_next_download_over(
               [m EXCEPT !.queue = Tail(m.queue),
                         !.active = DictSet(m.active, m.items[j].url, j),
                         !.items[j] = DownloadWorker(m.items[j]),
                         !.pool = Append(m.pool, j),
                         !.adm = Append(m.adm, j)], maxc)
    ELSE m

RECURSIVE start_next_download(_, _)
start_next_download(m, maxc) ==
    IF Len(m.active) < maxc /\ m.queue # <<>>
    THEN LET j == Head(m.queue)
         IN  start_next_download(
               [m EXCEPT !.queue = Tail(m.queue),
                         !.active = DictSet(m.active, m.items[j].url, j),
                         !.items[j] = DownloadWorker(m.items[j]),
                         !.pool = Append(m.pool, j),
                         !.adm = Append(m.adm, j)], maxc)
    ELSE m

\* DownloadWorker.pause / resume / cancel: the flag and the status
WorkerPause(item) == [item EXCEPT !.is_paused = TRUE, !.status = "paused"]
\* a resume that restarts the transfer's counters
WorkerResume_restart(item) ==
    [item EXCEPT !.is_paused = FALSE, !.status = "downloading",
                 !.progress = 0, !.bytes_downloaded = 0]

WorkerResume(item) == [item EXCEPT !.is_paused = FALSE, !.status = "downloading"]
WorkerCancel(item) == [item EXCEPT !.is_cancelled = TRUE, !.status = "cancelled"]

pause_download_no_admit(m, url, maxc) ==
    IF DictHas(m.active, url)
    THEN LET worker == DictGet(m.active, url)
         IN  [m EXCEPT !.items[worker] = WorkerPause(m.items[worker]),
                       !.paused = DictSet(m.paused, url, worker),
                       !.active = DictDel(m.active, url)]
    ELSE m

\* a pause that refills the active table whether or not the URL was active
pause_download_refill(m, url, maxc) ==
    IF DictHas(m.active, url)
    THEN LET worker == DictGet(m.active, url)
         IN  start_next_download(
               [m EXCEPT !.items[worker] = WorkerPause(m.items[worker]),
                         !.paused = DictSet(m.paused, url, worker),
                         !.active = DictDel(m.active, url)], maxc)
    ELSE start_next_download(m, maxc)

pause_download(m, url, maxc) ==
    IF DictHas(m.active, url)
    THEN LET worker == DictGet(m.active, url)
         IN  start_next_download(
               [m EXCEPT !.items[worker] = WorkerPause(m.items[worker]),
                         !.paused = DictSet(m.paused, url, worker),
                         !.active = DictDel(m.active, url)], maxc)
    ELSE m

\* a resume without the over-capacity branch
resume_download_plain(m, url, maxc) ==
    IF DictHas(m.paused, url)
    THEN LET worker == DictGet(m.paused, url)
         IN  [m EXCEPT !.items[worker] = WorkerResume(m.items[worker]),
                       !.active = DictSet(m.active, url, worker),
                       !.paused = DictDel(m.paused, url)]
    ELSE m

resume_download(m, url, maxc) ==
    IF DictHas(m.paused, url)
    THEN LET worker == DictGet(m.paused, url)
             m1 == [m EXCEPT !.items[worker] = WorkerResume(m.items[worker]),
                             !.active = DictSet(m.active, url, worker),
                             !.paused = DictDel(m.paused, url)]
         IN  IF Len(m1.active) > maxc
             THEN pause_download(m1, m1.active[1][1], maxc)
             ELSE m1
    ELSE m

\* a cancel that frees the slot without running the admission loop
cancel_download_no_admit(m, url, maxc) ==
    LET m1 == IF DictHas(m.active, url)
              THEN LET worker == DictGet(m.active, url)
                   IN  [m EXCEPT !.items[worker] = WorkerCancel(m.items[worker]),
                                 !.active = DictDel(m.active, url)]
              ELSE IF DictHas(m.paused, url)
              THEN LET worker == DictGet(m.paused, url)
                   IN  [m EXCEPT !.items[worker] = WorkerCancel(m.items[worker]),
                                 !.paused = DictDel(m.paused, url)]
              ELSE m
    IN  [m1 EXCEPT !.queue = SelectSeq(m1.queue, LAMBDA j : m1.items[j].url # url)]

cancel_download(m, url, maxc) ==
    LET m1 == IF DictHas(m.active, url)
              THEN LET worker == DictGet(m.active, url)
                   IN  start_next_download(
                         [m EXCEPT !.items[worker] = WorkerCancel(m.items[worker]),
                                   !.active = DictDel(m.active, url)], maxc)
              ELSE IF DictHas(m.paused, url)
              THEN LET worker == DictGet(m.paused, url)
                   IN  [m EXCEPT !.items[worker] = WorkerCancel(m.items[worker]),
                                 !.paused = DictDel(m.paused, url)]
              ELSE m
    IN  [m1 EXCEPT !.queue = SelectSeq(m1.queue, LAMBDA j : m1.items[j].url # url)]

\* the DownloadItems add_download creates for its valid URLs, appended in order
RECURSIVE Enqueue(_, _)
Enqueue(m, valid_urls) ==
    IF valid_urls = <<>> THEN m
    ELSE Enqueue([m EXCEPT !.items = Append(m.items, DownloadItem(Head(valid_urls))),
                           !.queue = Append(m.queue, Len(m.items) + 1)],
                 Tail(valid_urls))

add_download_atomic(m, urls, maxc) ==
    IF \A i \in 1..Len(urls) : urls[i] \in Accepted
    THEN start_next_download(Enqueue(m, urls), maxc)
    ELSE m

add_download(m, urls, maxc) ==
    LET valid_urls == SelectSeq(urls, LAMBDA url : url \in Accepted)
    IN  start_next_download(Enqueue(m, valid_urls), maxc)

\* the manager's tables after a handler
Becomes(m) ==
    /\ items' = m.items
    /\ download_queue' = m.queue
    /\ active_downloads' = m.active
    /\ paused_downloads' = m.paused
    /\ pool_queue' = m.pool
    /\ admitted' = m.adm

Batches == UNION {[1..n -> URLS] : n \in 1..MaxBatch}

NumValid(urls) == Len(SelectSeq(urls, LAMBDA url : url \in Accepted))

\* MainWindow.start_download / start_scheduled_download -> add_download
AddDownload(urls) ==
    /\ Len(items) + NumValid(urls) <= cap.jobs
    /\ Becomes(add_download(Manager, urls, maxThreadCount))
    /\ last_add' = IF cap.calls THEN [urls |-> urls, result |-> "None"] ELSE last_add
    /\ UNCHANGED <<maxThreadCount, finished_signals, cap, call>>

\* DownloadCard.pause_requested -> pause_download
PauseDownload(url) ==
    /\ Becomes(pause_download(Manager, url, maxThreadCount))
    /\ UNCHANGED <<maxThreadCount, finished_signals, last_add, cap, call>>

\* DownloadCard.resume_requested -> resume_download
ResumeDownload(url) ==
    /\ Becomes(resume_download(Manager, url, maxThreadCount))
    /\ UNCHANGED <<maxThreadCount, finished_signals, last_add, cap, call>>

\* DownloadCard.cancel_requested -> cancel_download
CancelDownload(url) ==
    /\ Becomes(cancel_download(Manager, url, maxThreadCount))
    /\ UNCHANGED <<maxThreadCount, finished_signals, last_add, cap, call>>

\* MainWindow.save_settings -> DownloadManager.load_settings
\* a change of the setting that pauses the active jobs beyond the new limit
load_settings_preempt(n) ==
    /\ maxThreadCount' = n
    /\ Becomes(IF Len(active_downloads) > n
               THEN pause_download(Manager, active_downloads[1][1], n)
               ELSE Manager)
    /\ UNCHANGED <<finished_signals, last_add, cap, call>>

load_settings(n) ==
    /\ maxThreadCount' = n
    /\ UNCHANGED <<items, download_queue, active_downloads, paused_downloads,
                   pool_queue, admitted, finished_signals, last_add, cap, call>>

\* MainWindow.on_worker_finished: the slot connected to worker_finished
on_worker_finished ==
    /\ finished_signals # <<>>
    /\ finished_signals' = Tail(finished_signals)
    /\ UNCHANGED <<items, download_queue, active_downloads, paused_downloads,
                   maxThreadCount, pool_queue, admitted, last_add, cap, call>>

\* ------------------------------------------------------- DownloadWorker.run
\* Only the worker's own item changes in a step of run().
WorkerStep(j, item) ==
    /\ items' = [items EXCEPT ![j] = item]
    /\ UNCHANGED <<download_queue, active_downloads, paused_downloads,
                   maxThreadCount, pool_queue, admitted, finished_signals, last_add, cap, call>>

\* an inner handler that gives up one attempt early
Caught_early(item) == IF item.attempt >= max_attempts - 1 THEN "except" ELSE "sleep"

\* what the inner "except Exception" does with an exception of attempt n:
\* re-raise on the last attempt, otherwise time.sleep(5 * attempt)
Caught(item) == IF item.attempt = max_attempts THEN "except" ELSE "sleep"

\* a start of run() that treats a missing FFmpeg as a failed attempt to retry
run_begin_retry(j, ffmpeg_missing) ==
    /\ pool_queue # <<>> /\ j = Head(pool_queue)
    /\ Cardinality(Running) < maxThreadCount
    /\ Cardinality(Started) < cap.started
    /\ pool_queue' = Tail(pool_queue)
    /\ items' = [items EXCEPT ![j].status = "downloading",
                              ![j].outcome = IF ffmpeg_missing THEN "no_ffmpeg" ELSE "none",
                              ![j].pc = IF ffmpeg_missing THEN "sleep" ELSE "loop"]
    /\ UNCHANGED <<download_queue, active_downloads, paused_downloads,
                   maxThreadCount, admitted, finished_signals, last_add, cap, call>>

\* The thread pool starts the oldest queued runnable when a thread is free;
\* run() marks the item downloading and checks for FFmpeg when it needs it.
run_begin(j, ffmpeg_missing) ==
    /\ pool_queue # <<>> /\ j = Head(pool_queue)
    /\ Cardinality(Running) < maxThreadCount
    /\ Cardinality(Started) < cap.started
    /\ pool_queue' = Tail(pool_queue)
    /\ items' = [items EXCEPT ![j].status = "downloading",
                              ![j].outcome = IF ffmpeg_missing THEN "no_ffmpeg" ELSE "none",
                              ![j].pc = IF ffmpeg_missing THEN "except" ELSE "loop"]
    /\ UNCHANGED <<download_queue, active_downloads, paused_downloads,
                   maxThreadCount, admitted, finished_signals, last_add, cap, call>>

\* a retry loop whose condition leaves out the cancel flag
run_loop_deaf(j) ==
    /\ items[j].pc = "loop"
    /\ LET it == items[j]
       IN  IF it.attempt < max_attempts /\ ~it.success
           THEN WorkerStep(j, [it EXCEPT !.attempt = it.attempt + 1,
                                         !.outcome = "none", !.wait = 0,
                                         !.pc = "probe"])
           ELSE WorkerStep(j, [it EXCEPT !.pc = "after"])

\* while attempt < max_attempts and not success and not self._is_cancelled
run_loop(j) ==
    /\ items[j].pc = "loop"
    /\ LET it == items[j]
       IN  IF it.attempt < max_attempts /\ ~it.success /\ ~it.is_cancelled
           THEN WorkerStep(j, [it EXCEPT !.attempt = it.attempt + 1,
                                         !.outcome = "none", !.wait = 0,
                                         !.pc = "probe"])
           ELSE WorkerStep(j, [it EXCEPT !.pc = "after"])

\* ydl.extract_info(url, download=False): metadata, or an exception
run_probe(j, ok) ==
    /\ items[j].pc = "probe"
    /\ LET it == items[j]
       IN  WorkerStep(j, [it EXCEPT !.outcome = IF ok THEN "none" ELSE "probe_raise",
                                    !.metadata = IF ok THEN "info" ELSE it.metadata,
                                    !.pc = IF ok THEN "probed" ELSE Caught(it)])

\* a probe after which the cancel flag is not looked at
run_probed_deaf(j) ==
    /\ items[j].pc = "probed"
    /\ WorkerStep(j, [items[j] EXCEPT !.pc = "transfer"])

\* a return on cancel that would leave run() without its finally clause
run_probed_silent(j) ==
    /\ items[j].pc = "probed"
    /\ LET it == items[j]
       IN  WorkerStep(j, [it EXCEPT !.pc = IF it.is_cancelled THEN "done"
                                           ELSE "transfer"])

\* if self._is_cancelled: return
run_probed(j) ==
    /\ items[j].pc = "probed"
    /\ LET it == items[j]
       IN  WorkerStep(j, [it EXCEPT !.pc = IF it.is_cancelled THEN "finally"
                                           ELSE "transfer"])

\* _update_progress called by the fetcher during ydl.download: with the pause
\* flag set (and no cancel) the hook stays in its sleep loop
update_progress_wait(j) ==
    /\ items[j].pc = "transfer"
    /\ items[j].is_paused /\ ~items[j].is_cancelled
    /\ WorkerStep(j, [items[j] EXCEPT !.pc = "hook_wait"])

\* the sleep loop of the hook ends when the pause flag is cleared or on cancel;
\* if self._is_cancelled: return
update_progress_wake(j) ==
    /\ items[j].pc = "hook_wait"
    /\ ~items[j].is_paused \/ items[j].is_cancelled
    /\ WorkerStep(j, [items[j] EXCEPT !.pc = IF items[j].is_cancelled THEN "transfer"
                                             ELSE "hook_set"])

\* _update_progress called with neither flag set: it goes on to the update
update_progress_check(j) ==
    /\ items[j].pc = "transfer"
    /\ ~items[j].is_paused /\ ~items[j].is_cancelled
    /\ WorkerStep(j, [items[j] EXCEPT !.pc = "hook_set"])

\* the progress computation without the clamp to 0..100
Progress_unclamped(current, total) ==
    LET t == IF total <= 0 THEN 1 ELSE total
    IN  (current * 100) \div t

\* progress = min(100.0, max(0.0, (current / total) * 100)) with total <= 0
\* replaced by 1; exact for the byte counts up to 2, rounded down above
Progress(current, total) ==
    LET t == IF total <= 0 THEN 1 ELSE total
        p == (current * 100) \div t
    IN  IF p > 100 THEN 100 ELSE IF p < 0 THEN 0 ELSE p

\* the hook stores progress and bytes_downloaded and emits progress_updated
update_progress_emit(j, current, total) ==
    /\ items[j].pc = "hook_set"
    /\ WorkerStep(j, [items[j] EXCEPT !.progress = Progress(current, total),
                                      !.bytes_downloaded = current,
                                      !.pc = "transfer"])

\* ydl.download returns and the output file exists with a size above zero:
\* completed; with options['verify'] set _verify_download may then raise
run_transfer_ok(j, verify_fails) ==
    /\ items[j].pc = "transfer"
    /\ LET it == [items[j] EXCEPT !.success = TRUE, !.status = "completed",
                                  !.file_path = "path"]
       IN  WorkerStep(j, [it EXCEPT !.outcome = IF verify_fails THEN "verify_raise" ELSE "ok",
                                    !.pc = IF verify_fails THEN Caught(it) ELSE "loop"])

\* ydl.download returns but the output file is missing or empty: logged only
run_transfer_empty(j) ==
    /\ items[j].pc = "transfer"
    /\ WorkerStep(j, [items[j] EXCEPT !.outcome = "empty", !.pc = "loop"])

\* ydl.download raises
run_transfer_raise(j) ==
    /\ items[j].pc = "transfer"
    /\ WorkerStep(j, [items[j] EXCEPT !.outcome = "raise", !.pc = Caught(items[j])])

\* time.sleep(5 * attempt) is over
run_sleep(j) ==
    /\ items[j].pc = "sleep"
    /\ WorkerStep(j, [items[j] EXCEPT !.wait = backoff_base * items[j].attempt,
                                      !.pc = "loop"])

\* if not success and not self._is_cancelled: raise RuntimeError
run_after(j) ==
    /\ items[j].pc = "after"
    /\ LET it == items[j]
       IN  WorkerStep(j, [it EXCEPT !.pc = IF ~it.success /\ ~it.is_cancelled
                                           THEN "except" ELSE "finally"])

\* except Exception: if not self._is_cancelled
run_except(j) ==
    /\ items[j].pc = "except"
    /\ LET it == items[j]
       IN  WorkerStep(j, [it EXCEPT !.pc = IF it.is_cancelled THEN "finally"
                                           ELSE "set_error"])

\* self.download_item.status = "error"; download_error.emit
run_set_error(j) ==
    /\ items[j].pc = "set_error"
    /\ WorkerStep(j, [items[j] EXCEPT !.status = "error",
                                      !.n_error = items[j].n_error + 1,
                                      !.pc = "finally"])

\* finally: self.manager.worker_finished.emit(url)
run_finally(j) ==
    /\ items[j].pc = "finally"
    /\ items' = [items EXCEPT ![j].pc = "done",
                              ![j].n_finished = items[j].n_finished + 1]
    /\ finished_signals' = Append(finished_signals, j)
    /\ UNCHANGED <<download_queue, active_downloads, paused_downloads,
                   maxThreadCount, pool_queue, admitted, last_add, cap, call>>

\* ------------------------------------------------------------ specification
Next ==
    \/ \E urls \in Batches : AddDownload(urls)
    \/ \E url \in URLS : PauseDownload(url)
    \/ \E url \in URLS : ResumeDownload(url)
    \/ \E url \in URLS : CancelDownload(url)
    \/ \E n \in 1..MaxConcurrent : load_settings(n)
    \/ on_worker_finished
    \/ \E j \in Jobs, ffmpeg_missing \in BOOLEAN : run_begin(j, ffmpeg_missing)
    \/ \E j \in Jobs : run_loop(j)
    \/ \E j \in Jobs, ok \in BOOLEAN : run_probe(j, ok)
    \/ \E j \in Jobs : run_probed(j)
    \/ \E j \in Jobs : update_progress_wait(j)
    \/ \E j \in Jobs : update_progress_wake(j)
    \/ \E j \in Jobs : update_progress_check(j)
    \/ \E j \in Jobs, current, total \in 0..MaxBytes : update_progress_emit(j, current, total)
    \/ \E j \in Jobs, verify_fails \in BOOLEAN : run_transfer_ok(j, verify_fails)
    \/ \E j \in Jobs : run_transfer_empty(j)
    \/ \E j \in Jobs : run_transfer_raise(j)
    \/ \E j \in Jobs : run_sleep(j)
    \/ \E j \in Jobs : run_after(j)
    \/ \E j \in Jobs : run_except(j)
    \/ \E j \in Jobs : run_set_error(j)
    \/ \E j \in Jobs : run_finally(j)

Spec == Init /\ [][Next]_vars

\* No Pause, Resume, Cancel or SetConcurrency is ever issued: downloads are
\* submitted and left to run.
\* ------------------------------------------------- calls of validate_url
\* what urlparse yields for the URLs validate_url is called with: a scheme,
\* and a netloc made of an optional prefix and a host, as written or in capitals
Schemes == {"http", "https", "ftp", ""}
Prefixes == {<<>>, <<"w","w","w",".">>, <<"m",".">>}
OtherHosts == {<<"e","x","a","m","p","l","e",".","c","o","m">>}

UpperChar(c) ==
    IF \E i \in 1..Len(ascii_lowercase) : ascii_lowercase[i] = c
    THEN ascii_uppercase[CHOOSE i \in 1..Len(ascii_lowercase) : ascii_lowercase[i] = c]
    ELSE c

Upper(s) == [i \in 1..Len(s) |-> UpperChar(s[i])]

ValidateInputs ==
    {[scheme |-> sc, netloc |-> IF up THEN Upper(pre \o h) ELSE pre \o h] :
        sc \in Schemes, pre \in Prefixes, h \in SUPPORTED_SITES \cup OtherHosts,
        up \in BOOLEAN}

InitValidate ==
    /\ items = <<>>
    /\ download_queue = <<>>
    /\ active_downloads = <<>>
    /\ paused_downloads = <<>>
    /\ maxThreadCount \in 1..MaxConcurrent
    /\ pool_queue = <<>>
    /\ admitted = <<>>
    /\ finished_signals = <<>>
    /\ last_add = [urls |-> <<>>, result |-> "None"]
    /\ cap \in Caps
    /\ call \in {[fn |-> "validate_url", arg |-> a, done |-> FALSE, ret |-> FALSE] :
                    a \in ValidateInputs}

\* Utils.validate_url(url) returns
ValidateUrl ==
    /\ call.fn = "validate_url" /\ ~call.done
    /\ call' = [call EXCEPT !.done = TRUE, !.ret = validate_url_of(call.arg)]
    /\ UNCHANGED <<items, download_queue, active_downloads, paused_downloads,
                   maxThreadCount, pool_queue, admitted, finished_signals, last_add, cap>>

NextValidate == ValidateUrl

SpecValidate == InitValidate /\ [][NextValidate]_vars

\* ---------------------------------------------------------------- queries
\* get_download_status without the lookup in paused_downloads
get_download_status_unpaused(m, url) ==
    IF DictHas(m.active, url) THEN m.items[DictGet(m.active, url)].status
    ELSE IF \E i \in 1..Len(m.queue) : m.items[m.queue[i]].url = url THEN "queued"
    ELSE "None"

\* get_download_status: reads the tables and changes nothing; "None" is None
get_download_status(m, url) ==
    IF DictHas(m.active, url) THEN m.items[DictGet(m.active, url)].status
    ELSE IF DictHas(m.paused, url) THEN m.items[DictGet(m.paused, url)].status
    ELSE IF \E i \in 1..Len(m.queue) : m.items[m.queue[i]].url = url THEN "queued"
    ELSE "None"

\* --------------------------------------------- calls of _update_progress
\* the progress dicts of the fetcher: downloaded_bytes; total_bytes, with -1
\* for None or no such key; total_bytes_estimate, with -1 for None and -2 for
\* no such key
ProgressDicts ==
    {[downloaded_bytes |-> c, total_bytes |-> t, total_bytes_estimate |-> e] :
        c \in 0..MaxTick, t \in {-1} \cup 0..MaxTick,
        e \in {-2, -1} \cup 0..MaxTick}

\* total = d.get('total_bytes') or d.get('total_bytes_estimate', 1)
HookTotal(d) ==
    IF d.total_bytes # -1 /\ d.total_bytes # 0 THEN d.total_bytes
    ELSE IF d.total_bytes_estimate = -2 THEN 1
    ELSE d.total_bytes_estimate

InitProgress ==
    /\ items = <<>>
    /\ download_queue = <<>>
    /\ active_downloads = <<>>
    /\ paused_downloads = <<>>
    /\ maxThreadCount \in 1..MaxConcurrent
    /\ pool_queue = <<>>
    /\ admitted = <<>>
    /\ finished_signals = <<>>
    /\ last_add = [urls |-> <<>>, result |-> "None"]
    /\ cap \in Caps
    /\ call \in {[fn |-> "_update_progress", arg |-> d, done |-> FALSE, ret |-> 0] :
                    d \in ProgressDicts}

\* _update_progress(d) on a fresh item (progress 0) with neither flag set:
\* "None <= 0" raises TypeError and leaves the progress as it was, otherwise
\* the computed progress is stored; ret is the item's progress afterwards
UpdateProgress ==
    /\ call.fn = "_update_progress" /\ ~call.done
    /\ call' = [call EXCEPT !.done = TRUE,
                            !.ret = IF HookTotal(call.arg) = -1 THEN call.ret
                                    ELSE Progress(call.arg.downloaded_bytes,
                                                  HookTotal(call.arg))]
    /\ UNCHANGED <<items, download_queue, active_downloads, paused_downloads,
                   maxThreadCount, pool_queue, admitted, finished_signals, last_add, cap>>

NextProgress == UpdateProgress

SpecProgress == InitProgress /\ [][NextProgress]_vars

NextUnattended ==
    \/ \E urls \in Batches : AddDownload(urls)
    \/ on_worker_finished
    \/ \E j \in Jobs, ffmpeg_missing \in BOOLEAN : run_begin(j, ffmpeg_missing)
    \/ \E j \in Jobs : run_loop(j)
    \/ \E j \in Jobs, ok \in BOOLEAN : run_probe(j, ok)
    \/ \E j \in Jobs : run_probed(j)
    \/ \E j \in Jobs : update_progress_check(j)
    \/ \E j \in Jobs, current, total \in 0..MaxBytes : update_progress_emit(j, current, total)
    \/ \E j \in Jobs, verify_fails \in BOOLEAN : run_transfer_ok(j, verify_fails)
    \/ \E j \in Jobs : run_transfer_empty(j)
    \/ \E j \in Jobs : run_transfer_raise(j)
    \/ \E j \in Jobs : run_sleep(j)
    \/ \E j \in Jobs : run_after(j)
    \/ \E j \in Jobs : run_except(j)
    \/ \E j \in Jobs : run_set_error(j)
    \/ \E j \in Jobs : run_finally(j)

SpecUnattended == Init /\ [][NextUnattended]_vars

\* ------------------------------------------------------------- properties
\* the jobs waiting in the backlog, the URLs they carry
QueueJobs == {download_queue[i] : i \in 1..Len(download_queue)}
QueueUrls == {items[j].url : j \in QueueJobs}

\* job j's worker is the handle dict d holds under some URL
Registered(d, j) == \E i \in 1..Len(d) : d[i][2] = j

\* the URL is tracked: in the backlog, the active table or the paused table
Tracked(u) ==
    u \in QueueUrls \cup DictKeys(active_downloads) \cup DictKeys(paused_downloads)

JobsOf(u) == {j \in Jobs : items[j].url = u}

\* job j's worker has emitted worker_finished and the slot has run for it
Delivered(j) ==
    /\ items[j].pc = "done"
    /\ \A i \in 1..Len(finished_signals) : finished_signals[i] # j

\* C1 as claimed: in every reachable state the active set holds at most
\* maxConcurrency entries, also after maxConcurrency was lowered.
C1_Claim == Len(active_downloads) <= maxThreadCount

\* C1 amended: the active set exceeds maxConcurrency only because load_settings
\* lowered the limit under it: a step that ends above the limit never grew the
\* active set, and if it began within the limit it is a lowering of the limit
\* that left the active set as it was.
C1_ActiveBounded ==
    [][Len(active_downloads') > maxThreadCount' =>
         /\ Len(active_downloads') <= Len(active_downloads)
         /\ (Len(active_downloads) <= maxThreadCount =>
               /\ maxThreadCount' < maxThreadCount
               /\ active_downloads' = active_downloads)]_vars

\* the limit was lowered under two active jobs while a third job is paused
C1_Witness ==
    /\ Len(active_downloads) > maxThreadCount
    /\ paused_downloads # <<>>

\* C2: once a worker's terminal notification (worker_finished) has been
\* delivered, with the job completed, error or cancelled, the job is no longer
\* held in the active set.
C2_Claim ==
    \A j \in Jobs :
        Delivered(j) /\ items[j].status \in TerminalStatus
            => ~Registered(active_downloads, j)

\* C3: with downloads submitted and left to run, no job stays in the backlog
\* once every admitted job has ended completed or error and its notification
\* has been delivered (from such a state no step ever admits it).
C3_Claim ==
    (/\ admitted # <<>>
     /\ \A i \in 1..Len(admitted) :
            /\ Delivered(admitted[i])
            /\ items[admitted[i]].status \in {"completed", "error"})
        => download_queue = <<>>

\* C4: the backlog, the active set and the paused set together hold as many
\* entries as there are accepted jobs whose status is not yet terminal.
C4_Claim ==
    Len(download_queue) + Len(active_downloads) + Len(paused_downloads)
        = Cardinality({j \in Jobs : items[j].status \notin TerminalStatus})

\* C5: a URL is in at most one of the backlog, the active table and the paused
\* table.
C5_Claim ==
    /\ QueueUrls \cap DictKeys(active_downloads) = {}
    /\ QueueUrls \cap DictKeys(paused_downloads) = {}
    /\ DictKeys(active_downloads) \cap DictKeys(paused_downloads) = {}

\* C6: no step creates a job for a URL that is tracked when the step begins
\* (submitting a tracked URL is a no-op or rejected).
C6_Claim == [][\A u \in URLS : Tracked(u) => JobsOf(u)' = JobsOf(u)]_vars

\* C7: workers are created in the order their jobs were appended to the
\* backlog: of two admitted jobs, the one appended first was admitted first.
C7_Fifo ==
    \A p, q \in 1..Len(admitted) : p < q => admitted[p] < admitted[q]

\* three jobs were admitted, one after the other had to wait in the backlog
C7_Witness ==
    /\ Len(admitted) = 3
    /\ paused_downloads # <<>>
    /\ \A j \in Jobs : ~items[j].is_cancelled

\* Validity as the design states it: scheme http or https, and the host,
\* lower-cased and without a leading www. or m., is a supported domain.
C8_Host(u) ==
    LET host == Lower(UrlParts(u).netloc)
    IN  IF OccursAt(host, <<"w","w","w",".">>, 1) THEN SubSeq(host, 5, Len(host))
        ELSE IF OccursAt(host, <<"m",".">>, 1) THEN SubSeq(host, 3, Len(host))
        ELSE host

C8_ValidUrls ==
    {u \in URLS : UrlParts(u).scheme \in {"http", "https"} /\ C8_Host(u) \in SUPPORTED_SITES}

Results(r) == IF r = "None" THEN <<>> ELSE r

\* C9: add_download hands its caller one rejection per invalid URL of the batch
\* and one accept per valid URL.
C9_Claim ==
    LET results == Results(last_add.result)
        urls == last_add.urls
    IN  /\ Len(SelectSeq(results, LAMBDA r : r = "rejected"))
             = Len(SelectSeq(urls, LAMBDA u : u \notin C8_ValidUrls))
        /\ Len(SelectSeq(results, LAMBDA r : r = "accepted"))
             = Len(SelectSeq(urls, LAMBDA u : u \in C8_ValidUrls))

\* C10: Pause of a URL of the active set leaves the worker that was registered
\* under it in the paused set and out of the active set; if the active set was
\* full and the backlog not empty, the job at the head of the backlog has left
\* the backlog, has its worker and its URL is in the active set.
C10_PauseAdmits ==
    [][\A url \in URLS : (PauseDownload(url) /\ DictHas(active_downloads, url)) =>
         LET worker == DictGet(active_downloads, url)
         IN  /\ DictHas(paused_downloads', url)
             /\ DictGet(paused_downloads', url) = worker
             /\ ~Registered(active_downloads', worker)
             /\ (download_queue # <<>> /\ Len(active_downloads) = maxThreadCount =>
                   LET head == Head(download_queue)
                   IN  /\ DictHas(active_downloads', items[head].url)
                       /\ items'[head].pc = "pooled"
                       /\ \A i \in 1..Len(download_queue') : download_queue'[i] # head
                       /\ admitted' # admitted
                       /\ admitted'[Len(admitted) + 1] = head)]_vars

\* a job is paused and the job admitted right after it holds the slot it freed
C10_Witness ==
    /\ Len(active_downloads) = maxThreadCount
    /\ Len(admitted) > maxThreadCount
    /\ \A j \in Jobs : ~items[j].is_cancelled
    /\ \E p \in DictValues(paused_downloads), h \in DictValues(active_downloads) :
          /\ h > p
          /\ items[p].status = "paused"
          /\ items[h].pc = "pooled"

\* C11: a Pause or a Resume leaves every job's progress and bytes_downloaded
\* as they were, and a Resume of a paused job while the active set has a free
\* slot puts that job's worker into the active set, out of the paused set,
\* with status "downloading" and the pause flag cleared
C11_PauseResume ==
    [][\A url \in URLS :
         /\ (PauseDownload(url) \/ ResumeDownload(url)) =>
               \A j \in Jobs :
                  /\ items'[j].progress = items[j].progress
                  /\ items'[j].bytes_downloaded = items[j].bytes_downloaded
         /\ ( /\ ResumeDownload(url)
              /\ DictHas(paused_downloads, url)
              /\ Len(active_downloads) < maxThreadCount ) =>
               LET worker == DictGet(paused_downloads, url)
               IN  /\ DictHas(active_downloads', url)
                   /\ DictGet(active_downloads', url) = worker
                   /\ ~DictHas(paused_downloads', url)
                   /\ items'[worker].status = "downloading"
                   /\ ~items'[worker].is_paused
                   /\ Len(active_downloads') <= maxThreadCount]_vars

\* a job that made progress, was paused inside the progress hook and has been
\* resumed: it is active again with its counters kept, the hook not yet awake
C11_Witness ==
    \E j \in Jobs :
       /\ items[j].pc = "hook_wait"
       /\ ~items[j].is_paused
       /\ items[j].status = "downloading"
       /\ items[j].progress > 0
       /\ items[j].bytes_downloaded > 0
       /\ Registered(active_downloads, j)

\* C12: a Resume of a paused job while the active set is exactly full puts the
\* job at the head of the backlog, keeps it out of the active set and leaves
\* the active set and every other job as they were
C12_Claim ==
    [][\A url \in URLS :
         ( /\ ResumeDownload(url)
           /\ DictHas(paused_downloads, url)
           /\ Len(active_downloads) = maxThreadCount ) =>
            LET worker == DictGet(paused_downloads, url)
            IN  /\ download_queue' # <<>>
                /\ Head(download_queue') = worker
                /\ ~Registered(active_downloads', worker)
                /\ active_downloads' = active_downloads
                /\ \A j \in Jobs \ {worker} : items'[j] = items[j]]_vars

\* C12 (as the code has it): a Resume of a paused job while the active set is
\* exactly full puts the job into the active set with status "downloading"
\* and leaves the backlog unchanged; unless its URL was already a key of the
\* active set, the job under the oldest key of the active set is paused and
\* moved to the paused set, so the active set keeps its size
C12_ResumeDisplaces ==
    [][\A url \in URLS :
         ( /\ ResumeDownload(url)
           /\ DictHas(paused_downloads, url)
           /\ Len(active_downloads) = maxThreadCount ) =>
            LET worker == DictGet(paused_downloads, url)
                oldest == active_downloads[1]
            IN  /\ DictHas(active_downloads', url)
                /\ DictGet(active_downloads', url) = worker
                /\ items'[worker].status = "downloading"
                /\ ~items'[worker].is_paused
                /\ download_queue' = download_queue
                /\ Len(active_downloads') = maxThreadCount
                /\ ~DictHas(active_downloads, url) =>
                     /\ ~DictHas(active_downloads', oldest[1])
                     /\ DictHas(paused_downloads', oldest[1])
                     /\ DictGet(paused_downloads', oldest[1]) = oldest[2]
                     /\ items'[oldest[2]].is_paused
                     /\ items'[oldest[2]].status = "paused"]_vars

\* with one slot: a later job sits paused although it has not started, and an
\* earlier job that has not started either is active with the status only a
\* resume gives it
C12_Witness ==
    /\ maxThreadCount = 1
    /\ Len(active_downloads) = 1
    /\ \E r, d \in Jobs :
          /\ r < d
          /\ Registered(active_downloads, r)
          /\ items[r].pc = "pooled" /\ items[r].status = "downloading"
          /\ Registered(paused_downloads, d)
          /\ items[d].pc = "pooled" /\ items[d].is_paused

\* C13: after Cancel(url) the URL is in none of the backlog, the active set
\* and the paused set, and one more Cancel(url) would change nothing: no
\* table, no status and no worker flag; a Cancel of a URL that no job carries
\* changes nothing either
C13_Claim ==
    [][\A url \in URLS :
         CancelDownload(url) =>
            /\ ~Tracked(url)'
            /\ cancel_download(Manager', url, maxThreadCount') = Manager'
            /\ JobsOf(url) = {} => UNCHANGED vars]_vars

\* C14: once a job's worker has been cancelled, no step of the progress hook
\* stores progress and emits progress_updated for that job, and the job's
\* worker_finished is never emitted a second time
C14_Claim ==
    [][\A j \in Jobs :
         items[j].is_cancelled =>
            /\ ~ \E current, total \in 0..MaxBytes : update_progress_emit(j, current, total)
            /\ items'[j].n_finished <= 1]_vars

\* the additional jobs a raise of the setting to b has room for
C15_Room(b) ==
    LET free == IF b > Len(active_downloads) THEN b - Len(active_downloads) ELSE 0
    IN  IF free < Len(download_queue) THEN free ELSE Len(download_queue)

\* C15: a step that raises the concurrency setting to b with a non-empty
\* backlog admits, within that step, as many jobs from the head of the
\* backlog as the raised setting has room for
C15_Claim ==
    [][\A b \in 1..MaxConcurrent :
         (load_settings(b) /\ b > maxThreadCount /\ download_queue # <<>>) =>
            /\ Len(admitted') = Len(admitted) + C15_Room(b)
            /\ Len(active_downloads') = Len(active_downloads) + C15_Room(b)
            /\ download_queue' = SubSeq(download_queue, C15_Room(b) + 1,
                                        Len(download_queue))]_vars

\* C16: a step that lowers the concurrency setting below the number of active
\* jobs changes none of the backlog, the active set, the paused set, the
\* thread pool's queue and the jobs (their pause and cancel flags included)
C16_LowerKeeps ==
    [][\A n \in 1..MaxConcurrent :
         (load_settings(n) /\ n < Len(active_downloads)) =>
            /\ download_queue' = download_queue
            /\ active_downloads' = active_downloads
            /\ paused_downloads' = paused_downloads
            /\ pool_queue' = pool_queue
            /\ items' = items]_vars

\* the setting has been lowered under a full active set while a job waits in
\* the backlog: no active job has been paused or cancelled
C16_Witness ==
    /\ Len(active_downloads) > maxThreadCount
    /\ download_queue # <<>>
    /\ paused_downloads = <<>>
    /\ \A j \in Jobs : ~items[j].is_paused /\ ~items[j].is_cancelled

\* C17: in a Cancel of a URL of the active set, with the active set exactly
\* full and a job waiting, the worker under that URL is cancelled and leaves
\* the active set, and in the same step the head of the backlog leaves the
\* backlog, gets its worker handed to the thread pool and has its URL in the
\* active set, as the next admission
C17_CancelAdmits ==
    [][\A url \in URLS :
         ( /\ CancelDownload(url)
           /\ DictHas(active_downloads, url)
           /\ Len(active_downloads) = maxThreadCount
           /\ download_queue # <<>> ) =>
            LET worker == DictGet(active_downloads, url)
                head == Head(download_queue)
            IN  /\ items'[worker].is_cancelled
                /\ items'[worker].status = "cancelled"
                /\ ~Registered(active_downloads', worker)
                /\ head \notin {download_queue'[i] : i \in 1..Len(download_queue')}
                /\ items'[head].pc = "pooled"
                /\ DictHas(active_downloads', items[head].url)
                /\ admitted' # admitted
                /\ admitted'[Len(admitted) + 1] = head]_vars

\* three URLs' worth of jobs with two slots: the first two were admitted, one
\* of them has been cancelled, and the third holds the freed slot
C17_Witness ==
    /\ maxThreadCount = 2
    /\ Len(items) = 3
    /\ admitted = <<1, 2, 3>>
    /\ download_queue = <<>> /\ paused_downloads = <<>>
    /\ Len(active_downloads) = 2
    /\ Registered(active_downloads, 3)
    /\ \E c \in {1, 2} : items[c].is_cancelled /\ ~Registered(active_downloads, c)

\* the fetcher outcomes that count as a failed transfer attempt
C18_Failed == {"probe_raise", "raise", "empty"}

C19_FinishedOnce ==
    \A j \in Jobs :
       /\ items[j].n_finished = IF items[j].pc = "done" THEN 1 ELSE 0
       /\ Cardinality({i \in 1..Len(finished_signals) : finished_signals[i] = j})
             <= items[j].n_finished
       /\ items[j].pc \in {"after", "except", "set_error", "finally"} =>
             ENABLED (run_after(j) \/ run_except(j) \/ run_set_error(j) \/ run_finally(j))

\* a worker cancelled during the probe of its first attempt has left run()
\* through the return and emitted worker_finished once
C19_Witness ==
    \E j \in Jobs :
       /\ items[j].pc = "done"
       /\ items[j].is_cancelled
       /\ items[j].attempt = 1
       /\ items[j].outcome = "none"
       /\ items[j].n_finished = 1

\* C20: a job whose run() has ended after the integrity check failed on a
\* successful transfer has the status "error" and one download_error emitted,
\* whichever attempt the transfer succeeded on
C20_Claim ==
    \A j \in Jobs :
       (items[j].pc = "done" /\ items[j].outcome = "verify_raise") =>
          /\ items[j].status = "error"
          /\ items[j].n_error = 1

\* the host of a netloc as the claim reads it: lower case, one leading "www."
\* or "m." taken off
C21_Host(netloc) ==
    LET host == Lower(netloc)
    IN  IF OccursAt(host, <<"w","w","w",".">>, 1) THEN SubSeq(host, 5, Len(host))
        ELSE IF OccursAt(host, <<"m",".">>, 1) THEN SubSeq(host, 3, Len(host))
        ELSE host

\* C21: a finished call of validate_url has returned True for every http or
\* https URL whose host is one of the supported domains, and False for every
\* URL of another scheme
C21_Claim ==
    (call.fn = "validate_url" /\ call.done) =>
       /\ ( /\ call.arg.scheme \in {"http", "https"}
            /\ C21_Host(call.arg.netloc) \in SUPPORTED_SITES ) => call.ret
       /\ call.arg.scheme \notin {"http", "https"} => ~call.ret

\* C22: in every step that changes a job's status to "completed" or "error",
\* the status before the step is "downloading"
C22_Claim ==
    [][\A j \in Jobs :
         ( /\ items'[j].status \in {"completed", "error"}
           /\ items'[j].status # items[j].status ) =>
            items[j].status = "downloading"]_vars

\* C23: no step changes the status of a job whose status is "completed",
\* "error" or "cancelled"
C23_Claim ==
    [][\A j \in Jobs :
         items[j].status \in TerminalStatus => items'[j].status = items[j].status]_vars

\* C24: a progress tick of a job whose status is "downloading" never stores a
\* progress value below the one the previous tick stored
C24_Claim ==
    [][\A j \in Jobs :
         ( /\ items[j].status = "downloading"
           /\ \E current, total \in 0..MaxBytes : update_progress_emit(j, current, total) ) =>
            items'[j].progress >= items[j].progress]_vars

\* C25: while a job's status is "paused" no step of the progress hook stores
\* progress and emits progress_updated for it, and its progress and
\* bytes_downloaded stay as they are
C25_Claim ==
    [][\A j \in Jobs :
         (items[j].status = "paused" /\ items'[j].status = "paused") =>
            /\ ~ \E current, total \in 0..MaxBytes : update_progress_emit(j, current, total)
            /\ items'[j].progress = items[j].progress
            /\ items'[j].bytes_downloaded = items[j].bytes_downloaded]_vars

\* C26: whenever a worker starts an attempt after an earlier one, it has
\* slept backoff_base times the number of the earlier attempt since that
\* attempt ended
C26_Claim ==
    [][\A j \in Jobs :
         (items[j].attempt >= 1 /\ items'[j].attempt = items[j].attempt + 1) =>
            items[j].wait = backoff_base * items[j].attempt]_vars

\* C27: a worker whose cancel flag is set while it is in the backoff wait, at
\* the loop condition after it, or past the loop starts no further attempt,
\* emits no download_error, has no "error" written to its status, can always
\* take its next step, and moves only on towards the finally clause, where
\* worker_finished is emitted
C27_CancelBetween ==
    [][\A j \in Jobs :
         (items[j].is_cancelled /\ items[j].pc \in {"sleep", "loop", "after", "finally"}) =>
            /\ items'[j].attempt = items[j].attempt
            /\ items'[j].n_error = items[j].n_error
            /\ items'[j].status = "error" => items[j].status = "error"
            /\ items'[j].pc \in
                 CASE items[j].pc = "sleep"   -> {"sleep", "loop"}
                   [] items[j].pc = "loop"    -> {"loop", "after"}
                   [] items[j].pc = "after"   -> {"after", "finally"}
                   [] items[j].pc = "finally" -> {"finally", "done"}
            /\ items'[j].pc = "done" => items'[j].n_finished = 1
            /\ ENABLED (run_sleep(j) \/ run_loop(j) \/ run_after(j) \/ run_finally(j))]_vars

\* a cancelled worker that left run() after the backoff wait of its first or
\* second attempt: no third attempt, no download_error, worker_finished once
C27_Witness ==
    \E j \in Jobs :
       /\ items[j].pc = "done"
       /\ items[j].is_cancelled
       /\ ~items[j].success
       /\ items[j].attempt \in 1..(max_attempts - 1)
       /\ items[j].wait = backoff_base * items[j].attempt
       /\ items[j].n_error = 0
       /\ items[j].n_finished = 1

\* the positions of run() a worker cancelled during the probe passes through
C28_Path == {"probe", "probed", "sleep", "except", "loop", "after", "finally"}

\* C28: a worker whose cancel flag is set while it is in the metadata probe
\* goes from there to the end of run() without a transfer: from the probe on
\* it stays on the path probe, check of the flag, backoff or handler, loop
\* exit, finally; no progress or byte count is stored, no attempt is added,
\* no download_error is emitted and "error" is not written to its status;
\* at the end worker_finished has been emitted once
C28_CancelInProbe ==
    [][\A j \in Jobs :
         (items[j].is_cancelled /\ items[j].pc \in C28_Path) =>
            /\ items'[j].pc \in C28_Path \cup {"done"}
            /\ items[j].pc = "probed" => items'[j].pc \in {"probed", "finally"}
            /\ items'[j].attempt = items[j].attempt
            /\ items'[j].progress = items[j].progress
            /\ items'[j].bytes_downloaded = items[j].bytes_downloaded
            /\ items'[j].n_error = items[j].n_error
            /\ items'[j].status = "error" => items[j].status = "error"
            /\ items'[j].pc = "done" => items'[j].n_finished = 1]_vars

\* a worker cancelled during its first probe has ended: nothing transferred,
\* status "cancelled", no download_error, worker_finished emitted
C28_Witness ==
    \E j \in Jobs :
       /\ items[j].pc = "done"
       /\ items[j].is_cancelled
       /\ items[j].attempt = 1
       /\ items[j].outcome = "none"
       /\ items[j].bytes_downloaded = 0
       /\ items[j].status = "cancelled"
       /\ items[j].n_error = 0
       /\ items[j].n_finished = 1

C30_Claim ==
    [][\A j \in Jobs :
         items[j].is_cancelled =>
            /\ items'[j].n_error = items[j].n_error
            /\ items'[j].status = "error" => items[j].status = "error"]_vars

\* C31: a step of the worker (its position in run() changes) never changes
\* the status of a job that Cancel has set to "cancelled"
C31_Claim ==
    [][\A j \in Jobs :
         ( /\ items[j].is_cancelled
           /\ items[j].status = "cancelled"
           /\ items'[j].pc # items[j].pc ) =>
            items'[j].status = "cancelled"]_vars

\* C32: while a worker's pause flag stays set it starts no attempt after an
\* earlier one, and its job's status is not changed to "completed" or "error"
C32_Claim ==
    [][\A j \in Jobs :
         (items[j].is_paused /\ items'[j].is_paused) =>
            /\ items[j].attempt >= 1 => items'[j].attempt = items[j].attempt
            /\ items'[j].status \in {"completed", "error"} =>
                  items'[j].status = items[j].status]_vars

\* C33: once a job's metadata is populated, no probe of a later attempt
\* assigns it again and emits metadata_received again
C33_Claim ==
    [][\A j \in Jobs :
         items[j].metadata # "empty" => ~run_probe(j, TRUE)]_vars

\* C34: every job with a non-empty file_path has the status "completed"
C34_Claim ==
    \A j \in Jobs : items[j].file_path # "" => items[j].status = "completed"

\* C35: after a call of the progress hook the item's progress is between 0
\* and 100, whatever byte count and totals the progress dict carries
C35_ProgressRange ==
    (call.fn = "_update_progress" /\ call.done) => (0 <= call.ret /\ call.ret <= 100)

\* the hook has run on a dict whose total is positive and smaller than the
\* downloaded byte count, and the stored progress is 100
C35_Witness ==
    /\ call.fn = "_update_progress" /\ call.done
    /\ HookTotal(call.arg) > 0
    /\ HookTotal(call.arg) < call.arg.downloaded_bytes
    /\ call.ret = 100


\* C36: get_download_status returns None exactly for a URL that is in none of
\* the backlog, the active table and the paused table, "queued" for a URL that
\* is only in the backlog, and otherwise the status of the job whose worker is
\* registered under the URL (active table or paused table)
C36_StatusOf ==
    \A url \in URLS :
        LET ret == get_download_status(Manager, url)
            held == {active_downloads[i][2] : i \in {k \in 1..Len(active_downloads) :
                                                      active_downloads[k][1] = url}}
                    \cup
                    {paused_downloads[i][2] : i \in {k \in 1..Len(paused_downloads) :
                                                      paused_downloads[k][1] = url}}
        IN  /\ (ret = "None") <=> ~Tracked(url)
            /\ (url \in QueueUrls /\ held = {}) => ret = "queued"
            /\ held # {} => \E j \in held : ret = items[j].status

\* one URL is only in the paused table and the query gives its job's status
\* "paused", another is only in the active table and the query gives its job's
\* status "downloading", and an untracked URL gives None
C36_Witness ==
    /\ \E url \in URLS :
          /\ DictHas(paused_downloads, url)
          /\ ~DictHas(active_downloads, url) /\ url \notin QueueUrls
          /\ get_download_status(Manager, url) = "paused"
    /\ \E url \in URLS :
          /\ DictHas(active_downloads, url)
          /\ ~DictHas(paused_downloads, url)
          /\ get_download_status(Manager, url) = "downloading"
    /\ \E url \in URLS : ~Tracked(url) /\ get_download_status(Manager, url) = "None"


\* C37: pause_download for a URL that is not in the active table (already
\* paused, still in the backlog, or unknown) changes nothing: backlog, active
\* table, paused table, thread pool, and every job's status and worker flags
\* stay as they are (worker.pause, which emits download_paused, is not called)
C37_PauseNoOp ==
    \A url \in URLS :
        ~DictHas(active_downloads, url) =>
            pause_download(Manager, url, maxThreadCount) = Manager

\* a URL that is only in the paused table, a backlog that is not empty, and a
\* URL that is tracked nowhere: the pauses that must change nothing
C37_Witness ==
    /\ \E url \in URLS :
          DictHas(paused_downloads, url) /\ ~DictHas(active_downloads, url)
    /\ \E url \in QueueUrls : ~DictHas(active_downloads, url)
    /\ \E url \in URLS : ~Tracked(url)


\* job j is admitted and waits in the thread pool while every pool thread is
\* held by a started worker that sits in the sleep loop of the progress hook
\* with its pause flag set: until one of them is resumed or cancelled, no
\* step starts j's run
C38_Starved(j) ==
    /\ Registered(active_downloads, j)
    /\ items[j].pc = "pooled" /\ items[j].status = "queued"
    /\ Cardinality(Running) >= maxThreadCount
    /\ \A k \in Running :
          /\ items[k].pc = "hook_wait"
          /\ items[k].is_paused /\ ~items[k].is_cancelled
          /\ Registered(paused_downloads, k)

\* C38 as claimed: paused jobs take no place a job admitted into the active
\* table needs; no admitted job is kept from starting its run by workers
\* that are paused and not resumed
C38_Claim == \A j \in Jobs : ~C38_Starved(j)


\* C39 as claimed: in every reachable state every job whose worker the paused
\* table holds has status "paused", and every job in the backlog has status
\* "queued"
C39_Claim ==
    /\ \A j \in Jobs : Registered(paused_downloads, j) => items[j].status = "paused"
    /\ \A j \in QueueJobs : items[j].status = "queued"

\* C40 as claimed: once cancel has been applied to a job's worker, the worker
\* does not emit download_complete for the job and the job's status is not
\* set to "completed"
C40_Claim ==
    [][\A j \in Jobs :
         items[j].is_cancelled =>
            /\ \A verify_fails \in BOOLEAN : ~run_transfer_ok(j, verify_fails)
            /\ items'[j].status = "completed" => items[j].status = "completed"]_vars

====
